---- MODULE Spec2Model ----
(***************************************************************************)
(* State-machine model of demo_rag_voice_simple.py: VoiceRAGDemo and main. *)
(*                                                                         *)
(* One action per statement group of the script; every remote call, the    *)
(* microphone, the file system and the audio mixer are the environment and *)
(* answer nondeterministically (success, an Exception, or, for the         *)
(* blocking calls made from conversation_loop on, a KeyboardInterrupt      *)
(* raised by Ctrl+C).                                                      *)
(*                                                                         *)
(* Two specifications share the method actions:                            *)
(*   Spec       - the program as run: main() and conversation_loop();      *)
(*   SpecDirect - a VoiceRAGDemo object whose setup_rag_system and         *)
(*                process_query are called directly, in any order.         *)
(***************************************************************************)
EXTENDS Naturals, Sequences, FiniteSets

(* ------------------------------ bounds -------------------------------- *)

\* Number of record_audio calls of conversation_loop (Spec).
MaxTurns == 2

\* Number of direct method calls on the object (SpecDirect).
MaxCalls == 3

\* Largest number of encoded segments in one synthesis response.
MaxSegments == 2

(* ---------------------------- literals -------------------------------- *)

NotInitMsg == "RAG system not initialized. Please upload a document first."

NoResponseMsg == "Sorry, I couldn't generate a response."

Apology == "Sorry, I encountered an error."

Goodbye == "Goodbye!"

\* Mutant of SttErrorString: the message alone, without the fixed prefix.
SttErrorBare(e) == e

\* f"Error with speech recognition: {e}"
SttErrorString(e) == "Error with speech recognition: " \o e

\* f"Error processing query: {str(e)}"
QueryErrorString(e) == "Error processing query: " \o e

\* None for the identifiers of the session.
None == 0

(* ------------------------- environment inputs ------------------------- *)

\* Transcripts the speech-to-text service may return.
Transcripts == {"", "hello"}

\* str(e) of the exceptions the services may raise (it may be empty).
ErrMsgs == {"", "timeout"}

\* Inputs given to process_query when it is called directly.
DirectInputs == {"", "hello", SttErrorString("timeout")}

\* Shapes of response.output the extraction of process_query tells apart:
\* out     - "missing" (no attribute or falsy), "list" (non-empty list),
\*           "scalar" (truthy, not a list);
\* content - of output[0]: "absent" (no attribute or falsy), "list_text"
\*           (non-empty list, [0] has .text), "list_notext" (non-empty list,
\*           [0] has no .text), "obj_text" (has .text), "scalar" (other).
Shapes ==
    { [out |-> "missing", content |-> "absent"],
      [out |-> "scalar", content |-> "absent"] }
    \cup { [out |-> "list", content |-> c] :
             c \in {"absent", "list_text", "list_notext", "obj_text", "scalar"} }

\* Temporary files: a name is the prefix-free part NamedTemporaryFile draws, as
\* a number, with the use the file is made for ("rec": a recording, "seg": a
\* synthesized segment). NoFile: the variable holds no name.
NoFile == [use |-> "none", n |-> None]

VARIABLES
    pc,                   \* position of the single thread of execution
    caller,               \* "main" (the script) or "harness" (direct calls)
    exc,                  \* exception being raised: "none" or its class
    vector_store_id,      \* self.vector_store_id (None or an id)
    previous_response_id, \* self.previous_response_id (None or an id)
    uploaded,             \* remote: the file was uploaded
    storeCreated,         \* remote: the vector store was created
    attached,             \* remote: the file was attached to the store
    svcIssued,            \* remote: ids of responses issued so far are 1..svcIssued
    requests,             \* remote: requests received by the responses endpoint
    req,                  \* process_query: the request it sent (None: not sent)
    resp,                 \* process_query: the response object received
    audio_file,           \* conversation_loop: audio_file
    user_input,           \* conversation_loop: user_input
    response,             \* value returned by process_query
    ttsText,              \* text_to_speech: text
    ttsSite,              \* text_to_speech: the call it runs for
    segs,                 \* text_to_speech: len(audio_segments)
    single,               \* text_to_speech: the response is not a list of segments
    seg,                  \* text_to_speech: i of the for loop
    played,               \* play steps of this text_to_speech call, in order
    tmp,                  \* the play step's temporary file
    files,                \* temporary files that exist
    busy,                 \* pygame.mixer.music.get_busy()
    interrupted,          \* a KeyboardInterrupt has been delivered
    turns,                \* record_audio calls (Spec), direct calls (SpecDirect)
    farewells,            \* text_to_speech("Goodbye!") calls so far
    faults,               \* steps that failed in the current iteration
    errlog                \* error lines printed in the current iteration

vars == <<pc, caller, exc, vector_store_id, previous_response_id, uploaded,
          storeCreated, attached, svcIssued, requests, req, resp,
          audio_file, user_input, response, ttsText, ttsSite, segs, single,
          seg, played, tmp, files, busy, interrupted, turns, farewells,
          faults, errlog>>

sessionVars == <<vector_store_id, previous_response_id>>

remoteVars == <<uploaded, storeCreated, attached, svcIssued, requests>>

loopVars == <<audio_file, user_input, response, resp, req>>

ttsVars == <<ttsText, ttsSite, segs, single, seg, played, tmp>>

envVars == <<files, busy>>

NoReq == [input |-> "", prev |-> None, store |-> None]

NoResp == [id |-> None, shape |-> [out |-> "missing", content |-> "absent"]]

\* VoiceRAGDemo.__init__ and the process before main() runs.
InitObject ==
    /\ exc = "none"
    /\ vector_store_id = None
    /\ previous_response_id = None
    /\ uploaded = FALSE
    /\ storeCreated = FALSE
    /\ attached = FALSE
    /\ svcIssued = 0
    /\ requests = 0
    /\ req = NoReq
    /\ resp = NoResp
    /\ audio_file = NoFile
    /\ user_input = ""
    /\ response = ""
    /\ ttsText = ""
    /\ ttsSite = "none"
    /\ segs = 0
    /\ single = FALSE
    /\ seg = 0
    /\ played = <<>>
    /\ tmp = NoFile
    /\ files = {}
    /\ busy = FALSE
    /\ interrupted = FALSE
    /\ turns = 0
    /\ farewells = 0
    /\ faults = {}
    /\ errlog = {}

Init ==
    /\ InitObject
    /\ caller = "main"
    /\ pc = "main_get_doc"

InitDirect ==
    /\ InitObject
    /\ caller = "harness"
    /\ pc = "harness"

(* ------------------------- raising exceptions ------------------------- *)

\* Where an exception raised at a position lands: the try statement of
\* conversation_loop covers its body only; an exception raised inside one of
\* its except clauses leaves conversation_loop. main's try covers
\* setup_rag_system and conversation_loop.
RaiseSite(site) ==
    IF caller = "harness" THEN "raise_harness"
    ELSE CASE site = "body" -> "raise_body"
           [] site = "handler" -> "raise_main"
           [] site = "setup" -> "raise_main"

Throw(kind, site) ==
    /\ exc' = kind
    /\ pc' = RaiseSite(site)

\* The id the vector-store service gives the store it creates.
StoreId == 1

(* ------------------- main(): document and ingestion ------------------- *)

\* main: document_file = get_document_path("chapter.pdf")
MainGetDoc ==
    /\ pc = "main_get_doc"
    /\ \/ /\ pc' = "upload"
          /\ exc' = exc
       \/ Throw("FileNotFoundError", "setup")
    /\ UNCHANGED <<caller, sessionVars, remoteVars, loopVars, ttsVars, envVars,
                   interrupted, turns, farewells, faults, errlog>>

\* setup_rag_system: file_id = self.upload_file(file_path)
SetupUpload ==
    /\ pc = "upload"
    /\ \/ /\ uploaded' = TRUE
          /\ pc' = "create_store"
          /\ exc' = exc
       \/ /\ \E kind \in {"FileNotFoundError", "Exception"} : Throw(kind, "setup")
          /\ uploaded' = uploaded
    /\ UNCHANGED <<caller, sessionVars, storeCreated, attached, svcIssued,
                   requests, loopVars, ttsVars, envVars, interrupted,
                   turns, farewells, faults, errlog>>

\* Mutant of SetupCreateStore: the session's field is set as soon as the store
\* exists, before the file is attached.
SetupCreateStoreSetsField ==
    /\ pc = "create_store"
    /\ \/ /\ storeCreated' = TRUE
          /\ vector_store_id' = StoreId
          /\ pc' = "attach"
          /\ exc' = exc
       \/ /\ Throw("Exception", "setup")
          /\ storeCreated' = storeCreated
          /\ vector_store_id' = vector_store_id
    /\ UNCHANGED <<caller, previous_response_id, uploaded, attached, svcIssued,
                   requests, loopVars, ttsVars, envVars, interrupted, turns,
                   farewells, faults, errlog>>

\* setup_rag_system: vector_store_id = self.create_vector_store(name)
SetupCreateStore ==
    /\ pc = "create_store"
    /\ \/ /\ storeCreated' = TRUE
          /\ pc' = "attach"
          /\ exc' = exc
       \/ /\ Throw("Exception", "setup")
          /\ storeCreated' = storeCreated
    /\ UNCHANGED <<caller, sessionVars, uploaded, attached, svcIssued, requests,
                   loopVars, ttsVars, envVars, interrupted, turns,
                   farewells, faults, errlog>>

\* setup_rag_system: self.add_file_to_vector_store(vector_store_id, file_id)
SetupAttach ==
    /\ pc = "attach"
    /\ \/ /\ attached' = TRUE
          /\ pc' = "set_store"
          /\ exc' = exc
       \/ /\ Throw("Exception", "setup")
          /\ attached' = attached
    /\ UNCHANGED <<caller, sessionVars, uploaded, storeCreated, svcIssued,
                   requests, loopVars, ttsVars, envVars, interrupted,
                   turns, farewells, faults, errlog>>

\* setup_rag_system: self.vector_store_id = vector_store_id; return it
SetupFinish ==
    /\ pc = "set_store"
    /\ vector_store_id' = StoreId
    /\ pc' = "setup_return"
    /\ UNCHANGED <<caller, exc, previous_response_id, remoteVars, loopVars,
                   ttsVars, envVars, interrupted, turns, farewells, faults,
                   errlog>>

\* main: print the store, then await demo.conversation_loop()
MainStartLoop ==
    /\ pc = "setup_return"
    /\ caller = "main"
    /\ pc' = "loop_head"
    /\ UNCHANGED <<caller, exc, sessionVars, remoteVars, loopVars, ttsVars,
                   envVars, interrupted, turns, farewells, faults, errlog>>

\* main: except FileNotFoundError / except Exception / finally. A
\* KeyboardInterrupt is a BaseException: neither clause catches it, the finally
\* clause runs and it leaves main.
MainExcept ==
    /\ pc = "raise_main"
    /\ pc' = IF exc = "KeyboardInterrupt" THEN "aborted" ELSE "done"
    /\ exc' = IF exc = "KeyboardInterrupt" THEN exc ELSE "none"
    /\ UNCHANGED <<caller, sessionVars, remoteVars, loopVars, ttsVars, envVars,
                   interrupted, turns, farewells, faults, errlog>>

\* main: conversation_loop returned (its break); finally, then main returns.
MainFinish ==
    /\ pc = "loop_exit"
    /\ pc' = "done"
    /\ UNCHANGED <<caller, exc, sessionVars, remoteVars, loopVars, ttsVars,
                   envVars, interrupted, turns, farewells, faults, errlog>>

(* ------------------ conversation_loop: capture, transcribe ------------ *)

\* The name NamedTemporaryFile draws: one no existing file has.
FreshFile(use) ==
    LET taken(k) == [use |-> use, n |-> k] \in files
        k == CHOOSE c \in 1..(Cardinality(files) + 1) :
                 /\ ~taken(c)
                 /\ \A b \in 1..(c - 1) : taken(b)
    IN  [use |-> use, n |-> k]

\* conversation_loop: audio_file = self.record_audio(). sd.rec/sd.wait may
\* fail or be interrupted; scipy's write may fail after the file was created.
\* An iteration assigns audio_file, user_input and response before it reads
\* them: the values the previous iteration left are dropped here.
RecordAudio ==
    /\ pc = "loop_head"
    /\ turns < MaxTurns
    /\ turns' = turns + 1
    /\ user_input' = ""
    /\ response' = ""
    /\ errlog' = {}
    /\ \/ /\ files' = files \cup {FreshFile("rec")}
          /\ audio_file' = FreshFile("rec")
          /\ pc' = "stt_call"
          /\ faults' = {}
          /\ UNCHANGED <<exc, interrupted>>
       \/ /\ \E created \in BOOLEAN :
                files' = IF created THEN files \cup {FreshFile("rec")} ELSE files
          /\ audio_file' = NoFile
          /\ Throw("Exception", "body")
          /\ faults' = {"capture"}
          /\ UNCHANGED interrupted
       \/ /\ Throw("KeyboardInterrupt", "body")
          /\ interrupted' = TRUE
          /\ audio_file' = NoFile
          /\ faults' = {}
          /\ UNCHANGED files
    /\ UNCHANGED <<caller, sessionVars, remoteVars, resp, req, ttsVars, busy,
                   farewells>>

\* Mutant of FilesAfterStt: the file is unlinked on the success path only, as
\* if the cleanup stood at the end of the try block.
FilesAfterSttOnSuccess(outcome) ==
    IF outcome = "ok" THEN files \ {audio_file} ELSE files

\* speech_to_text: the finally clause, whatever way the try block was left
\* (outcome: "ok", "Exception" or "KeyboardInterrupt").
FilesAfterStt(outcome) == files \ {audio_file}

\* conversation_loop: user_input = self.speech_to_text(audio_file), the whole
\* call: try / except Exception / finally.
SpeechToText ==
    /\ pc = "stt_call"
    /\ \/ /\ \E t \in Transcripts : user_input' = t
          /\ files' = FilesAfterStt("ok")
          /\ pc' = "loop_check"
          /\ UNCHANGED <<exc, interrupted, faults, errlog>>
       \/ /\ \E e \in ErrMsgs : user_input' = SttErrorString(e)
          /\ files' = FilesAfterStt("Exception")
          /\ errlog' = errlog \cup {"STT Error"}
          /\ faults' = faults \cup {"transcription"}
          /\ pc' = "loop_check"
          /\ UNCHANGED <<exc, interrupted>>
       \/ /\ Throw("KeyboardInterrupt", "body")
          /\ files' = FilesAfterStt("KeyboardInterrupt")
          /\ interrupted' = TRUE
          /\ UNCHANGED <<user_input, faults, errlog>>
    /\ UNCHANGED <<caller, sessionVars, remoteVars, audio_file, response, resp,
                   req, ttsVars, busy, turns, farewells>>

\* Mutant of LoopCheck: the empty transcript is not skipped.
LoopCheckNoSkip ==
    /\ pc = "loop_check"
    /\ pc' = "pq_entry"
    /\ UNCHANGED <<caller, exc, sessionVars, remoteVars, loopVars, ttsVars,
                   envVars, interrupted, turns, farewells, faults, errlog>>

\* conversation_loop: if not user_input: continue
LoopCheck ==
    /\ pc = "loop_check"
    /\ pc' = IF user_input = "" THEN "loop_head" ELSE "pq_entry"
    /\ UNCHANGED <<caller, exc, sessionVars, remoteVars, loopVars, ttsVars,
                   envVars, interrupted, turns, farewells, faults, errlog>>

(* --------------------------- process_query ---------------------------- *)

\* Mutant of PqEntry: the guard is missing.
PqEntryNoGuard ==
    /\ pc = "pq_entry"
    /\ pc' = "pq_create"
    /\ UNCHANGED <<caller, exc, sessionVars, remoteVars, loopVars, ttsVars,
                   envVars, interrupted, turns, farewells, faults, errlog>>

\* process_query: if not self.vector_store_id: return the fixed message
PqEntry ==
    /\ pc = "pq_entry"
    /\ IF vector_store_id = None
       THEN /\ response' = NotInitMsg
            /\ pc' = "pq_return"
       ELSE /\ response' = response
            /\ pc' = "pq_create"
    /\ UNCHANGED <<caller, exc, sessionVars, remoteVars, audio_file, user_input,
                   resp, req, ttsVars, envVars, interrupted, turns, farewells,
                   faults, errlog>>

\* The request process_query sends to the responses endpoint.
Request == [input |-> user_input,
            prev |-> previous_response_id,
            store |-> vector_store_id]

\* process_query: response = self.sync_client.responses.create(...), and the
\* except clause when the call raises.
PqCreate ==
    /\ pc = "pq_create"
    /\ requests' = requests + 1
    /\ req' = Request
    /\ \/ /\ svcIssued' = svcIssued + 1
          /\ \E sh \in Shapes : resp' = [id |-> svcIssued + 1, shape |-> sh]
          /\ pc' = "pq_store"
          /\ UNCHANGED <<exc, response, interrupted, faults>>
       \/ /\ \E e \in ErrMsgs : response' = QueryErrorString(e)
          /\ faults' = faults \cup {"query"}
          /\ pc' = "pq_return"
          /\ UNCHANGED <<exc, svcIssued, resp, interrupted>>
       \/ /\ Throw("KeyboardInterrupt", "body")
          /\ interrupted' = TRUE
          /\ UNCHANGED <<svcIssued, resp, response, faults>>
    /\ UNCHANGED <<caller, sessionVars, uploaded, storeCreated, attached,
                   audio_file, user_input, ttsVars, envVars, turns, farewells,
                   errlog>>

\* Mutant of PqStore: the id of the response is not kept.
PqStoreSkips ==
    /\ pc = "pq_store"
    /\ pc' = "pq_extract"
    /\ UNCHANGED <<caller, exc, sessionVars, remoteVars, loopVars, ttsVars,
                   envVars, interrupted, turns, farewells, faults, errlog>>

\* process_query: if hasattr(response, 'id'): self.previous_response_id = it
PqStore ==
    /\ pc = "pq_store"
    /\ previous_response_id' = resp.id
    /\ pc' = "pq_extract"
    /\ UNCHANGED <<caller, exc, vector_store_id, remoteVars, loopVars, ttsVars,
                   envVars, interrupted, turns, farewells, faults, errlog>>

\* process_query: the text the nested shape tests extract from a response;
\* ok is FALSE when the extraction raises (content[0] has no attribute text).
ExtractText(sh) ==
    IF sh.out # "missing"
    THEN IF sh.out = "list"
         THEN IF sh.content # "absent"
              THEN IF sh.content \in {"list_text", "list_notext"}
                   THEN IF sh.content = "list_text"
                        THEN [ok |-> TRUE, text |-> "content[0].text"]
                        ELSE [ok |-> FALSE, text |-> "no attribute 'text'"]
                   ELSE IF sh.content = "obj_text"
                        THEN [ok |-> TRUE, text |-> "content.text"]
                        ELSE [ok |-> TRUE, text |-> "str(content)"]
              ELSE [ok |-> TRUE, text |-> "str(output[0])"]
         ELSE [ok |-> TRUE, text |-> "str(output)"]
    ELSE [ok |-> TRUE, text |-> NoResponseMsg]

\* process_query: extract the text and return it, or the except clause.
PqExtract ==
    /\ pc = "pq_extract"
    /\ LET r == ExtractText(resp.shape)
       IN  IF r.ok
           THEN /\ response' = r.text
                /\ faults' = faults
           ELSE /\ response' = QueryErrorString(r.text)
                /\ faults' = faults \cup {"query"}
    /\ pc' = "pq_return"
    /\ UNCHANGED <<caller, exc, sessionVars, remoteVars, audio_file, user_input,
                   resp, req, ttsVars, envVars, interrupted, turns, farewells,
                   errlog>>

\* process_query returns: its frame (response object, request) is gone.
PqFrameGone ==
    /\ resp' = NoResp
    /\ req' = NoReq

(* --------------------------- text_to_speech --------------------------- *)

\* A call self.text_to_speech(text) made at a place of conversation_loop:
\* "reply" (in the try body), "apology" or "farewell" (in an except clause).
CallTTS(text, site) ==
    /\ pc' = "tts_convert"
    /\ ttsText' = text
    /\ ttsSite' = site
    /\ segs' = 0
    /\ single' = FALSE
    /\ seg' = 0
    /\ played' = <<>>
    /\ tmp' = NoFile

\* text_to_speech returns or is left by an exception: its frame is gone.
TtsFrameGone ==
    /\ ttsText' = ""
    /\ ttsSite' = "none"
    /\ segs' = 0
    /\ single' = FALSE
    /\ seg' = 0
    /\ played' = <<>>
    /\ tmp' = NoFile

\* Where an exception that text_to_speech does not catch is raised.
TtsRaiseSite == IF ttsSite = "reply" THEN "body" ELSE "handler"

\* conversation_loop: response = await self.process_query(user_input);
\* self.text_to_speech(response)
LoopSpeak ==
    /\ pc = "pq_return"
    /\ caller = "main"
    /\ PqFrameGone
    /\ CallTTS(response, "reply")
    /\ UNCHANGED <<caller, exc, sessionVars, remoteVars, audio_file, user_input,
                   response, envVars, interrupted, turns, farewells, faults,
                   errlog>>

\* text_to_speech: audio_response = convert(...), the test of its shape, and
\* the except clause when the call raises.
TtsConvert ==
    /\ pc = "tts_convert"
    /\ \/ /\ \E n \in 0..MaxSegments :
                /\ segs' = n
                /\ pc' = IF n > 0 THEN "play_start" ELSE "tts_return"
          /\ single' = FALSE
          /\ UNCHANGED <<exc, ttsText, ttsSite, seg, played, tmp, interrupted,
                         faults, errlog>>
       \/ /\ single' = TRUE
          /\ pc' = "save_start"
          /\ UNCHANGED <<exc, ttsText, ttsSite, segs, seg, played, tmp,
                         interrupted, faults, errlog>>
       \/ /\ errlog' = errlog \cup {"TTS Error"}
          /\ faults' = faults \cup {"synthesis"}
          /\ pc' = "tts_return"
          /\ UNCHANGED <<exc, ttsVars, interrupted>>
       \/ /\ Throw("KeyboardInterrupt", TtsRaiseSite)
          /\ interrupted' = TRUE
          /\ TtsFrameGone
          /\ UNCHANGED <<faults, errlog>>
    /\ UNCHANGED <<caller, sessionVars, remoteVars, loopVars, envVars, turns,
                   farewells>>

\* One entry of played: segment i ended "done" or "failed".
Played(i, r) == [i |-> i, r |-> r]

\* _play_base64_audio / _play_audio_with_save: os.unlink(temp_file_path),
\* the last statement of the try block.
FilesAfterPlayback == files \ {tmp}

\* _play_base64_audio / _play_audio_with_save: except Exception: print(...).
\* created: the temporary file was made before the statement that raised.
PlayStepFailed(created, nextpc) ==
    /\ files' = IF created THEN files \cup {FreshFile("seg")} ELSE files
    /\ tmp' = IF created THEN FreshFile("seg") ELSE NoFile
    /\ played' = Append(played, Played(seg, "failed"))
    /\ errlog' = errlog \cup {"Error playing"}
    /\ faults' = faults \cup {"playback"}
    /\ pc' = nextpc
    /\ busy' = busy

\* _play_base64_audio, up to pygame.mixer.music.play(): b64decode may raise
\* (no file yet); write, load or play may raise (the file exists).
PlayStart ==
    /\ pc = "play_start"
    /\ \/ /\ files' = files \cup {FreshFile("seg")}
          /\ tmp' = FreshFile("seg")
          /\ busy' = TRUE
          /\ pc' = "play_wait"
          /\ UNCHANGED <<played, faults, errlog>>
       \/ \E created \in BOOLEAN : PlayStepFailed(created, "play_returned")
    /\ UNCHANGED <<caller, exc, sessionVars, remoteVars, loopVars, ttsText,
                   ttsSite, segs, single, seg, interrupted, turns, farewells>>

\* Mutant of PlaybackObservedDone: the step goes on without the busy-poll.
PlaybackNotAwaited == TRUE

\* while pygame.mixer.music.get_busy(): the loop is left when the mixer is
\* seen idle.
PlaybackObservedDone == ~busy

\* The wait for the end of the playback, then os.unlink(temp_file_path);
\* Ctrl+C may arrive during the wait.
WaitAndUnlink(nextpc) ==
    \/ /\ PlaybackObservedDone
       /\ files' = FilesAfterPlayback
       /\ played' = Append(played, Played(seg, "done"))
       /\ pc' = nextpc
       /\ UNCHANGED <<exc, ttsText, ttsSite, segs, single, seg, tmp,
                      interrupted>>
    \/ /\ busy
       /\ Throw("KeyboardInterrupt", TtsRaiseSite)
       /\ interrupted' = TRUE
       /\ TtsFrameGone
       /\ UNCHANGED files

\* _play_base64_audio, from the wait on.
PlayFinish ==
    /\ pc = "play_wait"
    /\ WaitAndUnlink("play_returned")
    /\ UNCHANGED <<caller, sessionVars, remoteVars, loopVars, busy, turns,
                   farewells, faults, errlog>>

\* text_to_speech: the for loop over audio_segments goes to its next element,
\* or ends.
PlayNext ==
    /\ pc = "play_returned"
    /\ IF seg + 1 < segs
       THEN /\ seg' = seg + 1
            /\ tmp' = NoFile
            /\ pc' = "play_start"
       ELSE /\ seg' = seg
            /\ tmp' = tmp
            /\ pc' = "tts_return"
    /\ UNCHANGED <<caller, exc, sessionVars, remoteVars, loopVars, ttsText,
                   ttsSite, segs, single, played, envVars, interrupted, turns,
                   farewells, faults, errlog>>

\* _play_audio_with_save, up to pygame.mixer.music.play(): the file exists
\* from the with statement on; save, load or play may raise.
SaveStart ==
    /\ pc = "save_start"
    /\ \/ /\ files' = files \cup {FreshFile("seg")}
          /\ tmp' = FreshFile("seg")
          /\ busy' = TRUE
          /\ pc' = "save_wait"
          /\ UNCHANGED <<played, faults, errlog>>
       \/ PlayStepFailed(TRUE, "tts_return")
    /\ UNCHANGED <<caller, exc, sessionVars, remoteVars, loopVars, ttsText,
                   ttsSite, segs, single, seg, interrupted, turns, farewells>>

\* _play_audio_with_save, from the wait on.
SaveFinish ==
    /\ pc = "save_wait"
    /\ WaitAndUnlink("tts_return")
    /\ UNCHANGED <<caller, sessionVars, remoteVars, loopVars, busy, turns,
                   farewells, faults, errlog>>

\* The mixer reaches the end of the audio it is playing.
MixerFinish ==
    /\ busy
    /\ busy' = FALSE
    /\ UNCHANGED <<pc, caller, exc, sessionVars, remoteVars, loopVars, ttsVars,
                   files, interrupted, turns, farewells, faults, errlog>>

\* text_to_speech returns: the reply and the apology end the iteration, the
\* farewell is followed by break.
TtsReturn ==
    /\ pc = "tts_return"
    /\ pc' = IF ttsSite = "farewell" THEN "loop_exit" ELSE "loop_head"
    /\ TtsFrameGone
    /\ UNCHANGED <<caller, exc, sessionVars, remoteVars, loopVars, envVars,
                   interrupted, turns, farewells, faults, errlog>>

(* ---------------- conversation_loop: the except clauses --------------- *)

\* except KeyboardInterrupt: self.text_to_speech("Goodbye!"); break
HandleInterrupt ==
    /\ pc = "raise_body"
    /\ exc = "KeyboardInterrupt"
    /\ exc' = "none"
    /\ farewells' = farewells + 1
    /\ PqFrameGone
    /\ CallTTS(Goodbye, "farewell")
    /\ UNCHANGED <<caller, sessionVars, remoteVars, audio_file, user_input,
                   response, envVars, interrupted, turns, faults, errlog>>

\* Mutant of HandleException: the clause is missing, the exception leaves
\* conversation_loop.
HandleExceptionMissing ==
    /\ pc = "raise_body"
    /\ exc = "Exception"
    /\ pc' = "raise_main"
    /\ UNCHANGED <<caller, exc, sessionVars, remoteVars, loopVars, ttsVars,
                   envVars, interrupted, turns, farewells, faults, errlog>>

\* except Exception as e: print(...); self.text_to_speech("Sorry, ...")
HandleException ==
    /\ pc = "raise_body"
    /\ exc = "Exception"
    /\ exc' = "none"
    /\ errlog' = errlog \cup {"An error occurred"}
    /\ PqFrameGone
    /\ CallTTS(Apology, "apology")
    /\ UNCHANGED <<caller, sessionVars, remoteVars, audio_file, user_input,
                   response, envVars, interrupted, turns, farewells, faults>>

(* ------------------- direct calls on a VoiceRAGDemo ------------------- *)

\* A caller holding the object calls setup_rag_system(path, name); it has
\* dropped the value its previous call returned.
DirectSetup ==
    /\ pc = "harness"
    /\ turns < MaxCalls
    /\ turns' = turns + 1
    /\ pc' = "upload"
    /\ response' = ""
    /\ faults' = {}
    /\ UNCHANGED <<caller, exc, sessionVars, remoteVars, audio_file, user_input,
                   resp, req, ttsVars, envVars, interrupted, farewells, errlog>>

\* A caller holding the object calls process_query(user_input); it has
\* dropped the value its previous call returned.
DirectQuery ==
    /\ pc = "harness"
    /\ turns < MaxCalls
    /\ turns' = turns + 1
    /\ \E input \in DirectInputs : user_input' = input
    /\ pc' = "pq_entry"
    /\ response' = ""
    /\ faults' = {}
    /\ UNCHANGED <<caller, exc, sessionVars, remoteVars, audio_file, resp, req,
                   ttsVars, envVars, interrupted, farewells, errlog>>

\* The direct call returns, or raises to its caller.
DirectReturn ==
    /\ caller = "harness"
    /\ \/ /\ pc \in {"setup_return", "pq_return"}
          /\ pc' = "harness"
          /\ exc' = exc
       \/ /\ pc = "raise_harness"
          /\ exc # "KeyboardInterrupt"
          /\ pc' = "harness"
          /\ exc' = "none"
       \/ /\ pc = "raise_harness"
          /\ exc = "KeyboardInterrupt"
          /\ pc' = "aborted"
          /\ exc' = exc
    /\ PqFrameGone
    /\ UNCHANGED <<caller, sessionVars, remoteVars, audio_file, user_input,
                   response, ttsVars, envVars, interrupted, turns, farewells,
                   faults, errlog>>

(* --------------------------- specifications --------------------------- *)

Setup == SetupUpload \/ SetupCreateStore \/ SetupAttach \/ SetupFinish

Query == PqEntry \/ PqCreate \/ PqStore \/ PqExtract

Speak ==
    \/ TtsConvert \/ PlayStart \/ PlayFinish \/ PlayNext
    \/ SaveStart \/ SaveFinish \/ MixerFinish \/ TtsReturn

Next ==
    \/ MainGetDoc \/ Setup \/ MainStartLoop \/ MainExcept \/ MainFinish
    \/ RecordAudio \/ SpeechToText \/ LoopCheck \/ Query \/ LoopSpeak
    \/ Speak \/ HandleInterrupt \/ HandleException

Spec == Init /\ [][Next]_vars

NextDirect == DirectSetup \/ DirectQuery \/ DirectReturn \/ Setup \/ Query

SpecDirect == InitDirect /\ [][NextDirect]_vars


(* ------------------------------ claims -------------------------------- *)

\* Error strings speech_to_text and process_query return.
SttErrors == { SttErrorString(e) : e \in ErrMsgs }

QueryErrors == { QueryErrorString(e) : e \in ErrMsgs \cup {"no attribute 'text'"} }

\* conversation_loop has been left (by break or by an exception).
LoopLeft == turns > 0 /\ pc \in {"raise_main", "loop_exit", "done", "aborted"}

\* text_to_speech is about to return from the call that ends an iteration.
IterationEnding == pc = "tts_return" /\ ttsSite \in {"reply", "apology"}

\* C1 (as claimed): once a KeyboardInterrupt is delivered while the loop runs,
\* whatever step it interrupts, the loop makes exactly one farewell
\* text_to_speech("Goodbye!") call and exits, and starts no other capture.
C1_OneFarewellThenExit ==
    /\ LoopLeft => farewells = 1
    /\ interrupted => pc # "loop_head"

\* C2 (as claimed): no failure but the interruption ends the loop, and every
\* failed step of an iteration is turned into a returned string or a spoken
\* apology before the loop goes on.
C2_ReturnedStringOrApology ==
    /\ LoopLeft => interrupted
    /\ IterationEnding =>
          \A f \in faults :
             \/ f = "transcription" /\ user_input \in SttErrors
             \/ f = "query" /\ response \in QueryErrors
             \/ ttsSite = "apology" /\ ttsText = Apology

\* C2 (amended): no failure but the interruption ends the loop; a capture
\* failure is answered with the spoken apology, a transcription or query
\* failure becomes the returned error string, a synthesis or playback failure
\* is only printed; in each case the iteration ends and the loop goes on
\* to its next capture.
C2_FailuresAbsorbed ==
    /\ [](LoopLeft => interrupted)
    /\ [](IterationEnding =>
            /\ "capture" \in faults => ttsSite = "apology" /\ ttsText = Apology
            /\ "transcription" \in faults => user_input \in SttErrors
            /\ "query" \in faults => response \in QueryErrors
            /\ "synthesis" \in faults => "TTS Error" \in errlog
            /\ "playback" \in faults => "Error playing" \in errlog)
    /\ [][IterationEnding /\ pc' # pc => pc' = "loop_head"]_vars
    /\ [][pc = "raise_body" /\ exc = "Exception" /\ pc' # pc
            => pc' = "tts_convert" /\ ttsText' = Apology]_vars

\* C2 witness: a capture failure was answered with the apology, whose playback
\* ended, and the iteration is ending with no interruption delivered.
C2_Witness ==
    /\ IterationEnding
    /\ faults = {"capture"}
    /\ ttsText = Apology
    /\ Len(played) > 0
    /\ ~interrupted

\* C3 (as claimed): when a segment's play step returns, the temporary file it
\* made no longer exists, whether the step succeeded or failed.
C3_SegmentFileDeleted ==
    (pc = "play_returned" \/ (pc = "tts_return" /\ single)) => tmp \notin files

\* C4: the recording passed to speech_to_text exists only until speech_to_text
\* is left, by a return (transcript or error string) or by an exception.
C4_RecordingDeleted == audio_file \in files => pc = "stt_call"

\* C4 witness: transcription failed, speech_to_text returned, the recording
\* is gone.
C4_Witness ==
    /\ pc = "loop_check"
    /\ "transcription" \in faults
    /\ audio_file # NoFile
    /\ audio_file \notin files

\* C5: the play steps of a list response run once per segment, in list order;
\* a segment starts only when the one before it failed or its playback was
\* seen to end; a failed segment does not stop the ones after it.
C5_SegmentsInOrder ==
    /\ \A k \in 1..Len(played) : played[k].i = k - 1
    /\ pc \in {"play_start", "play_wait"} => Len(played) = seg /\ seg < segs
    /\ pc = "play_returned" => Len(played) = seg + 1
    /\ (pc = "tts_return" /\ ~single) => Len(played) = segs
    /\ (pc = "play_start" /\ seg > 0)
          => (played[seg].r = "failed" \/ ~busy)

\* C5 witness: two segments, the first failed, the second was played to its
\* end, and text_to_speech is about to return.
C5_Witness ==
    /\ pc = "tts_return"
    /\ segs = 2
    /\ played = <<Played(0, "failed"), Played(1, "done")>>

\* C6: vector_store_id is set, and returned, only after upload, creation and
\* attachment succeeded in that order; the loop starts, and a query is sent,
\* only with vector_store_id set.
C6_StoreSetAfterIngestion ==
    /\ vector_store_id # None => uploaded /\ storeCreated /\ attached
    /\ storeCreated => uploaded
    /\ attached => storeCreated
    /\ pc = "setup_return" => vector_store_id = StoreId
    /\ turns > 0 => vector_store_id # None
    /\ req # NoReq => req.store # None

\* C6 witness: the attachment failed after the store was created; main ended
\* without the loop and with vector_store_id unset.
C6_Witness ==
    /\ pc = "done"
    /\ storeCreated
    /\ ~attached
    /\ vector_store_id = None
    /\ turns = 0

\* C7 (as claimed): a query that fails, returning an error string, leaves
\* previous_response_id as it was when its request was built.
C7_FailedQueryKeepsId ==
    (pc = "pq_return" /\ response \in QueryErrors)
        => previous_response_id = req.prev

\* C7 (amended): each request carries the id of the latest response received
\* (None before the first); a received response replaces
\* previous_response_id with its id, also when extracting its text then
\* fails and process_query returns an error string; a request that raises,
\* and the not-initialized answer, leave previous_response_id unchanged; no
\* query changes vector_store_id.
C7_ResponseChain ==
    /\ [](pc # "pq_store" => previous_response_id = svcIssued)
    /\ [](req # NoReq =>
            req.prev = IF resp # NoResp THEN resp.id - 1 ELSE svcIssued)
    /\ [][(pc \in {"pq_entry", "pq_create", "pq_store", "pq_extract"})
            => vector_store_id' = vector_store_id]_vars

\* C7 witness: the second successful query carried the id of the first and
\* its own id has replaced it.
C7_Witness ==
    /\ pc = "pq_return"
    /\ req # NoReq
    /\ req.prev = 1
    /\ resp.id = 2
    /\ previous_response_id = 2

\* C8: while the session holds no vector-store id, process_query sends no
\* request and returns the not-initialized message, whatever the input.
C8_NotInitialized ==
    vector_store_id = None =>
        /\ requests = 0
        /\ pc \notin {"pq_create", "pq_store", "pq_extract"}
        /\ pc = "pq_return" => response = NotInitMsg /\ req = NoReq

\* C8 witness: process_query("hello") has returned the message on a session
\* without a vector store.
C8_Witness ==
    /\ pc = "pq_return"
    /\ vector_store_id = None
    /\ user_input = "hello"
    /\ response = NotInitMsg
    /\ requests = 0

\* C9: in an iteration whose transcript is empty neither process_query nor
\* text_to_speech runs: the loop is at its head again with nothing returned
\* and nothing printed.
C9_EmptyTranscriptSkips ==
    /\ pc \in {"pq_entry", "pq_create", "pq_store", "pq_extract", "pq_return"}
          => user_input # ""
    /\ ttsSite = "reply" => user_input # ""
    /\ (pc = "loop_head" /\ audio_file # NoFile /\ user_input = "")
          => response = "" /\ faults = {} /\ errlog = {}

\* C9 witness: the first iteration got an empty transcript and the loop is at
\* its head again, no request sent.
C9_Witness ==
    /\ pc = "loop_head"
    /\ turns = 1
    /\ audio_file # NoFile
    /\ user_input = ""
    /\ requests = 0

\* C10: when transcription fails, speech_to_text returns a non-empty error
\* string; the iteration is not skipped: the string is the input of the
\* request process_query sends and the reply to it is what is spoken.
C10_SttErrorIsQueried ==
    "transcription" \in faults =>
        /\ user_input \in SttErrors
        /\ user_input # ""
        /\ pc \in {"pq_store", "pq_extract", "pq_return"} => req.input = user_input
        /\ ttsSite = "reply" => ttsText = response /\ response # ""
        /\ pc = "loop_head" => response # ""

\* C10 witness: the error string with an empty message was queried and the
\* reply to it was played.
C10_Witness ==
    /\ pc = "tts_return"
    /\ "transcription" \in faults
    /\ user_input = SttErrorString("")
    /\ ttsSite = "reply"
    /\ played = <<Played(0, "done")>>

====
